---------------------------- MODULE Spec2Model ----------------------------
(***************************************************************************)
(* Device ownership and conflict-resolution engine of the device           *)
(* classifier (App component, fileTree library, Sidebar, Devices, Graph).  *)
(*                                                                         *)
(* A path string is modelled as the sequence of the pieces between its     *)
(* separators ('/' or '\'): "root/A//x" is <<"root","A","","x">>.  The     *)
(* piece "" is an empty piece (a doubled, leading or trailing separator)   *)
(* and " A" is the piece "A" padded with white space.                      *)
(***************************************************************************)
EXTENDS Naturals, Sequences, FiniteSets, TLC

(***************************************************************************)
(* Bounds of the model.                                                    *)
(***************************************************************************)
\* Merged devices that exist at the same time.
MaxMergedDevices == 2
\* Name overrides that exist at the same time.
MaxOverrides == 1
\* File reads that were started and whose completion is still in flight.
MaxUploads == 1

\* Pieces of a path string given to the relation comparator.
MaxPieces == 2
\* Device paths in a device list given to the library functions.
MaxDevices == 2
\* Folder paths in a selection given to the planner.
MaxSelected == 3
\* Hidden folders in one export.
MaxHidden == 2
\* Point paths in one tree built on its own.
MaxTreePaths == 3

\* null where a path is expected: no path string has no pieces at all.
None == <<>>
RootName == "root"

(***************************************************************************)
(* Path Normalizer  (lib/fileTree)                                         *)
(***************************************************************************)
\* String.prototype.trim on one piece.
trim(s) == CASE s = " A" -> "A"
             [] s = " "  -> ""
             [] OTHER    -> s

\* The white space at the end of a piece (the padded pieces of the model
\* are padded on the left; " " is nothing but white space).
trimEnd(s) == IF s = " " THEN "" ELSE s

Range(f) == {f[i] : i \in DOMAIN f}

RECURSIVE SetToSeq(_)
SetToSeq(S) == IF S = {} THEN <<>>
               ELSE LET x == CHOOSE y \in S : TRUE
                    IN  <<x>> \o SetToSeq(S \ {x})

\* The empty string: one piece, and that piece empty.
EmptyString == <<"">>

\* String.prototype.trim on a whole path string: the white space before
\* its first piece and after its last piece goes.
trimString(value) ==
    LET n == Len(value)
    IN  [i \in 1..n |->
            IF i = 1 /\ i = n THEN trim(value[i])
            ELSE IF i = 1 THEN trim(value[i])
            ELSE IF i = n THEN trimEnd(value[i])
            ELSE value[i]]

\* .replace(/\/+/g,'/'): a run of separators becomes one separator, so an
\* empty piece that is neither the first nor the last piece disappears.
RECURSIVE collapseSeparators(_, _)
collapseSeparators(outer, i) ==
    IF i > Len(outer) THEN <<>>
    ELSE IF outer[i] # "" \/ i = 1 \/ i = Len(outer)
         THEN <<outer[i]>> \o collapseSeparators(outer, i + 1)
         ELSE collapseSeparators(outer, i + 1)

\* value.trim().replace(/\\/g,'/').replace(/\/+/g,'/')
normalizePath(value) == collapseSeparators(trimString(value), 1)

\* .split('/').map((s) => s.trim()).filter(Boolean)
trimmedSegments(normalized) ==
    SelectSeq([i \in 1..Len(normalized) |-> trim(normalized[i])],
              LAMBDA s : s # "")

\* normalizePath(value).split('/').map((s) => s.trim()).filter(Boolean)
rawSegments(value) == trimmedSegments(normalizePath(value))

withoutLastKeepsSingle(segs) ==
    IF Len(segs) <= 1 THEN segs ELSE SubSeq(segs, 1, Len(segs) - 1)

\* rawSegments.slice(0, -1), and nothing when there is at most one piece.
withoutLast(segs) ==
    IF Len(segs) <= 1 THEN <<>> ELSE SubSeq(segs, 1, Len(segs) - 1)

\* The folder pieces of a point path: all but the final (point) piece.
splitFolderSegments(pathValue) == withoutLast(rawSegments(pathValue))

stripRootPrefix(segments) ==
    IF Len(segments) > 0 /\ segments[1] = RootName
    THEN Tail(segments) ELSE segments

toComparableSegments(value) == stripRootPrefix(rawSegments(value))

(***************************************************************************)
(* Path Relation Comparator  (lib/fileTree getPathRelation)                *)
(***************************************************************************)
minOf(m, n) == IF m < n THEN m ELSE n

relateSegmentsRootAbove(aSegs, bSegs) ==
    IF \E i \in 1..minOf(Len(aSegs), Len(bSegs)) : aSegs[i] # bSegs[i]
    THEN "disjoint"
    ELSE IF Len(aSegs) = Len(bSegs) THEN "same"
    ELSE IF Len(aSegs) < Len(bSegs) THEN "ancestor"
    ELSE "descendant"

\* The comparison of getPathRelation on the comparable segments.
relateSegments(aSegs, bSegs) ==
    IF Len(aSegs) = 0 \/ Len(bSegs) = 0 THEN "disjoint"
    ELSE IF \E i \in 1..minOf(Len(aSegs), Len(bSegs)) : aSegs[i] # bSegs[i]
         THEN "disjoint"
    ELSE IF Len(aSegs) = Len(bSegs) THEN "same"
    ELSE IF Len(aSegs) < Len(bSegs) THEN "ancestor"
    ELSE "descendant"

getPathRelationEqualIsAncestor(a, b) ==
    IF relateSegments(toComparableSegments(a), toComparableSegments(b)) = "same"
    THEN "ancestor"
    ELSE relateSegments(toComparableSegments(a), toComparableSegments(b))

getPathRelation(a, b) ==
    relateSegments(toComparableSegments(a), toComparableSegments(b))

\* Two paths one of which is above the other.
Nested(a, b) == getPathRelation(a, b) \in {"ancestor", "descendant"}

(***************************************************************************)
(* Folder Tree Builder  (lib/fileTree buildFolderTreeFromPaths)            *)
(* The tree is returned as the sequence of its nodes' path keys in the     *)
(* order the nodes were created, the root first.                           *)
(***************************************************************************)
RECURSIVE walkSegments(_, _, _)
walkSegments(nodes, currentKey, segments) ==
    IF segments = <<>> THEN nodes
    ELSE LET nextKey == Append(currentKey, Head(segments))
             nodes2 == IF nextKey \in Range(nodes) THEN nodes
                       ELSE Append(nodes, nextKey)
         IN  walkSegments(nodes2, nextKey, Tail(segments))

RECURSIVE buildNodes(_, _, _)
buildNodes(nodes, paths, rootName) ==
    IF paths = <<>> THEN nodes
    ELSE buildNodes(walkSegments(nodes, <<rootName>>,
                                 splitFolderSegments(Head(paths))),
                    Tail(paths), rootName)

buildFolderTreeFromPaths(paths, rootName) ==
    buildNodes(<<(<<rootName>>)>>, paths, rootName)

\* treeData is null while no paths are loaded, and then the set is empty.
treeFolderPathSetOf(paths) ==
    IF Len(paths) = 0 THEN {}
    ELSE Range(buildFolderTreeFromPaths(paths, RootName))

(***************************************************************************)
(* Ownership Resolver  (App computeOwnerDevice)                            *)
(***************************************************************************)
\* d.split('/').filter(Boolean).length: the pieces of the raw string that
\* are not empty, the leading root piece included.
depthOf(d) == Len(SelectSeq(d, LAMBDA s : s # ""))

betterOfShallowest(best, d, rel) ==
    IF rel # "ancestor" /\ rel # "same" THEN best
    ELSE IF best.path = None \/ depthOf(d) < best.depth
         THEN [path |-> d, depth |-> depthOf(d)]
         ELSE best

\* One turn of the loop: the device d, related rel to the point, against
\* the best found so far.
betterOf(best, d, rel) ==
    IF rel # "ancestor" /\ rel # "same" THEN best
    ELSE IF best.path = None \/ depthOf(d) > best.depth
         THEN [path |-> d, depth |-> depthOf(d)]
         ELSE best

RECURSIVE ownerLoop(_, _, _)
ownerLoop(pointPath, devices, best) ==
    IF devices = <<>> THEN best
    ELSE ownerLoop(pointPath, Tail(devices),
                   betterOf(best, Head(devices),
                            getPathRelation(Head(devices), pointPath)))

computeOwnerDeviceFirst(pointPath, devices) ==
    IF devices = <<>> THEN None ELSE Head(devices)

\* The device (a path) that owns the point, or None.  devices is the array
\* of device paths in its iteration order.
computeOwnerDevice(pointPath, devices) ==
    ownerLoop(pointPath, devices, [path |-> None, depth |-> 0]).path

(***************************************************************************)
(* Conflict Planner  (App computeReassignmentGroups,                       *)
(* markSelectionAsDevices)                                                 *)
(***************************************************************************)
\* The owners of a point before and after the change: <<from, to>>.
ownerChange(pt, currentDevices, nextDevices) ==
    <<computeOwnerDevice(pt, currentDevices),
      computeOwnerDevice(pt, nextDevices)>>

\* The three "continue" of the loop over the points.
skippedChange(change) ==
    \/ change[1] = change[2]
    \/ change[1] = None /\ change[2] # None
    \/ change[1] # None /\ change[2] = None

\* The points the loop does not skip.
reportedPoints(change) ==
    {pt \in DOMAIN change : ~skippedChange(change[pt])}

groupsOfReportedSwapped(change, reported) ==
    {[fromDevicePath |-> k[2], toDevicePath |-> k[1],
      pointPaths |-> {pt \in reported : change[pt] = k}]
     : k \in {change[pt] : pt \in reported}}

\* The groups of the reported points, keyed by <<from, to>>.
groupsOfReported(change, reported) ==
    {[fromDevicePath |-> k[1], toDevicePath |-> k[2],
      pointPaths |-> {pt \in reported : change[pt] = k}]
     : k \in {change[pt] : pt \in reported}}

groupsOfChange(change) == groupsOfReported(change, reportedPoints(change))

computeReassignmentGroupsKeepUnowned(currentDevices, nextDevices, points) ==
    LET change == [pt \in Range(points) |->
                      ownerChange(pt, currentDevices, nextDevices)]
    IN  groupsOfReported(change,
            {pt \in Range(points) :
                change[pt][1] # change[pt][2] /\ change[pt][1] # None})

\* The groups keyed by (previous owner, next owner); each carries the set
\* of the point paths it reports.
computeReassignmentGroups(currentDevices, nextDevices, points) ==
    groupsOfChange([pt \in Range(points) |->
                       ownerChange(pt, currentDevices, nextDevices)])

isDescendantOfAnotherSelected(candidate, selectionUnique) ==
    \E other \in selectionUnique :
        candidate # other /\ getPathRelation(candidate, other) = "descendant"

\* A selected candidate that is a strict ancestor of another selected one.
isAncestorOfAnotherSelected(candidate, selectionUnique) ==
    \E other \in selectionUnique :
        candidate # other /\ getPathRelation(candidate, other) = "ancestor"

droppedFromSelectionOf(selectionUnique) ==
    {c \in selectionUnique : isAncestorOfAnotherSelected(c, selectionUnique)}

toAddOfWholeSelection(selectionUnique) == selectionUnique

toAddOf(selectionUnique) ==
    {c \in selectionUnique : ~isAncestorOfAnotherSelected(c, selectionUnique)}

upstreamConflictsOf(devices, toAdd) ==
    {existing \in devices :
        \E incoming \in toAdd : getPathRelation(existing, incoming) = "ancestor"}

downstreamConflictsOf(devices, toAdd) ==
    {existing \in devices :
        \E incoming \in toAdd : getPathRelation(existing, incoming) = "descendant"}

toRemoveOfDownstreamOnly(devices, toAdd) ==
    {existing \in devices :
        \E incoming \in toAdd : getPathRelation(existing, incoming) = "descendant"}

toRemoveOfUpstreamOnly(devices, toAdd) ==
    {existing \in devices :
        \E incoming \in toAdd : getPathRelation(existing, incoming) = "ancestor"}

toRemoveOf(devices, toAdd) ==
    {existing \in devices :
        \E incoming \in toAdd :
            getPathRelation(existing, incoming) \in {"ancestor", "descendant"}}

\* next Device Set = (current minus all to-remove) union to-add
nextDevicesOf(devices, toAdd, toRemove) ==
    (devices \ toRemove) \cup toAdd

\* The plan for the to-add and to-remove paths found.
planRecord(selected, devices, points, toAdd, toRemove) ==
    [toAdd |-> toAdd,
     toRemove |-> toRemove,
     droppedFromSelection |-> droppedFromSelectionOf(selected),
     upstreamConflicts |-> upstreamConflictsOf(devices, toAdd),
     downstreamConflicts |-> downstreamConflictsOf(devices, toAdd),
     reassignmentGroups |->
         computeReassignmentGroups(SetToSeq(devices),
             SetToSeq(nextDevicesOf(devices, toAdd, toRemove)), points)]

\* The plan markSelectionAsDevices computes for a selection.
planOf(selected, devices, points) ==
    planRecord(selected, devices, points, toAddOf(selected),
               toRemoveOf(devices, toAddOf(selected)))

\* if (toRemove.length || droppedFromSelection.length): ask before applying
needsConfirmation(plan) ==
    plan.toRemove # {} \/ plan.droppedFromSelection # {}

(***************************************************************************)
(* The inputs of the model: the CSV files a user can upload (each the      *)
(* sequence of the cells of its path column), the names a user types and   *)
(* the configuration a previous session left in localStorage.              *)
(***************************************************************************)
PathColumn == "path"

CsvFiles ==
    << << <<" A", "x">>, <<"A", "", "B", "x">>, <<"">>, <<"y">> >>, << <<"A", "x">>, <<"B", "x">> >> >>

CsvIds == DOMAIN CsvFiles

MergeNameInputs == {" ", " A"}
RenameInputs == {" ", " A"}

EmptyNames == [p \in {} |-> ""]

PersistedMergedDevices ==
    { {},
      {[id |-> 1, name |-> "A",
        memberPaths |-> {<<"root", "A">>, <<"root", "B">>}]} }

PersistedNameByPath == {EmptyNames, [p \in {<<"root", "B">>} |-> "A"]}

PersistedHiddenFolderPaths ==
    { {}, {<<"root", "A">>}, {<<"root", "A", "B">>, <<"root", "Z">>} }

\* lastOp names the handlers the properties below are about; any other
\* handler leaves OtherOp.
OtherOp == "other"

NoConflict == [pending |-> FALSE]
NoMerge == [pending |-> FALSE]

(***************************************************************************)
(* The state of the App component.                                         *)
(***************************************************************************)
VARIABLES
    csvText,            \* 0: null; otherwise the uploaded file (an index of CsvFiles)
    selectedColumn,     \* "" or the chosen path column
    paths,              \* the point paths parsed from the chosen column
    treeFolderPathSet,  \* the memoized set of the tree's node paths
    devicePaths,        \* the Device Set
    mergedDevices,      \* the Merged Devices: records id, name, memberPaths
    deviceNameByPath,   \* the Name Overrides
    selectedPaths,      \* the Selection
    hiddenFolderPaths,  \* the Hidden Folder Set
    pendingConflict,    \* the conflict plan waiting for confirmation
    pendingMerge,       \* the staged merge
    mergeName,          \* the text of the merge dialog's name input
    fileReads,          \* the files whose file.text() has not resolved yet
    effectsDue,         \* the effects React has still to run for the last render
    planDevices,        \* history: the Device Set the pending plan was computed for
    lastOp,             \* history: the handler that ran last
    probe               \* a call of a library function: its arguments and its result

vars == <<csvText, selectedColumn, paths, treeFolderPathSet, devicePaths, mergedDevices,
          deviceNameByPath, selectedPaths, hiddenFolderPaths, pendingConflict,
          pendingMerge, mergeName, fileReads, effectsDue, planDevices, lastOp,
          probe>>

\* The state of the App component alone.
appVars == <<csvText, selectedColumn, paths, treeFolderPathSet, devicePaths,
             mergedDevices, deviceNameByPath, selectedPaths, hiddenFolderPaths,
             pendingConflict, pendingMerge, mergeName, fileReads, effectsDue,
             planDevices, lastOp>>

\* No library call is under examination while the App runs.
NoProbe == [fn |-> "none", args |-> <<>>, called |-> FALSE, result |-> <<>>]

\* points: one record per row with a non-empty path; its path is paths' entry.
points == paths

DevicesEffect == "devicePaths"
TreeEffect == "normalizeHiddenFolderPaths"

Init ==
    /\ csvText = 0
    /\ selectedColumn = ""
    /\ paths = <<>>
    /\ treeFolderPathSet = {}
    /\ devicePaths = {}
    /\ mergedDevices \in PersistedMergedDevices
    /\ deviceNameByPath \in PersistedNameByPath
    /\ selectedPaths = {}
    /\ hiddenFolderPaths \in PersistedHiddenFolderPaths
    /\ pendingConflict = NoConflict
    /\ pendingMerge = NoMerge
    /\ mergeName = ""
    /\ fileReads = <<>>
    /\ effectsDue = {DevicesEffect, TreeEffect}
    /\ planDevices = {}
    /\ lastOp = "init"
    /\ probe = NoProbe

(***************************************************************************)
(* Display names  (App mergedNameByPath, displayDeviceName)                *)
(***************************************************************************)
\* $XX hex sequences become their character.
decodeStandardName(value) == IF value = "$41" THEN "A" ELSE value

\* The merged name of a path: the trimmed, non-empty name of the group it
\* is a member of ("" when it has none).
mergedNameByPath(p, merged) ==
    LET named == {md \in merged : trim(md.name) # "" /\ p \in md.memberPaths}
    IN  IF named = {} THEN ""
        ELSE trim((CHOOSE md \in named : TRUE).name)

displayDeviceNameOverrideFirst(p, merged, nameByPath) ==
    LET mergedName == mergedNameByPath(p, merged)
        override == IF p \in DOMAIN nameByPath THEN nameByPath[p] ELSE ""
    IN  IF trim(override) # "" THEN trim(override)
        ELSE IF trim(mergedName) # "" THEN trim(mergedName)
        ELSE decodeStandardName(p[Len(p)])

displayDeviceName(p, merged, nameByPath) ==
    LET mergedName == mergedNameByPath(p, merged)
        override == IF p \in DOMAIN nameByPath THEN nameByPath[p] ELSE ""
    IN  IF trim(mergedName) # "" THEN trim(mergedName)
        ELSE IF trim(override) # "" THEN trim(override)
        ELSE decodeStandardName(p[Len(p)])

(***************************************************************************)
(* Maintenance effects  (App useEffect on devicePaths; Hidden-Folder       *)
(* Normalizer)                                                             *)
(***************************************************************************)
pruneMergedDevicesKeepEmpty(prev, devices) ==
    {[md EXCEPT !.memberPaths = md.memberPaths \cap devices] : md \in prev}

\* Prune merged groups if their member paths are no longer devices.
pruneMergedDevices(prev, devices) ==
    {[md EXCEPT !.memberPaths = md.memberPaths \cap devices] :
        md \in {m \in prev : m.memberPaths \cap devices # {}}}

pruneDeviceNamesKeepAll(prev, devices) == prev

\* Prune overrides for removed devices.
pruneDeviceNames(prev, devices) ==
    [k \in DOMAIN prev \cap devices |-> prev[k]]

normalizeHiddenFolderPathsKeepCovered(incoming, treeSet) ==
    LET unique == {trimString(p) : p \in incoming} \ {EmptyString}
    IN  {p \in unique : /\ p # <<RootName>>
                        /\ (treeSet # {} => p \in treeSet)}

\* Unique trimmed non-empty strings; never the root and, once a tree is
\* loaded, only its folder paths; of those, the ones no other candidate
\* covers (is an ancestor of, or the same path written differently).
normalizeHiddenFolderPaths(incoming, treeSet) ==
    LET unique == {trimString(p) : p \in incoming} \ {EmptyString}
        candidates == {p \in unique :
                          /\ p # <<RootName>>
                          /\ (treeSet # {} => p \in treeSet)}
        covered(p) == \E other \in candidates :
                          /\ p # other
                          /\ getPathRelation(other, p) \in {"ancestor", "same"}
    IN  {p \in candidates : ~covered(p)}

isAtOrDownstreamOfAnyFolderPath(path, ancestorPaths) ==
    LET pathSegs == toComparableSegments(path)
    IN  /\ Len(pathSegs) > 0
        /\ \E a \in ancestorPaths :
              LET ancSegs == toComparableSegments(a)
              IN  /\ Len(ancSegs) > 0
                  /\ Len(pathSegs) >= Len(ancSegs)
                  /\ \A i \in 1..Len(ancSegs) : pathSegs[i] = ancSegs[i]

\* The device_name of an owner: its display name, nothing without owner.
ownerName(owner, merged, nameByPath) ==
    IF owner # None THEN displayDeviceName(owner, merged, nameByPath) ELSE ""

\* Whether the export treats a (trimmed) path cell as hidden.
isHiddenRow(pointPath, hidden) ==
    /\ pointPath # EmptyString
    /\ hidden # {}
    /\ isAtOrDownstreamOfAnyFolderPath(pointPath, hidden)

exportLabelOwnerFirst(pointPath, hidden, devices, merged, nameByPath) ==
    IF pointPath # EmptyString /\ computeOwnerDevice(pointPath, devices) # None
    THEN ownerName(computeOwnerDevice(pointPath, devices), merged, nameByPath)
    ELSE IF isHiddenRow(pointPath, hidden) THEN "-" ELSE ""

\* The device_name exportCsvWithDeviceNames writes for a trimmed path cell.
exportLabel(pointPath, hidden, devices, merged, nameByPath) ==
    IF isHiddenRow(pointPath, hidden) THEN "-"
    ELSE ownerName(IF pointPath # EmptyString
                   THEN computeOwnerDevice(pointPath, devices) ELSE None,
                   merged, nameByPath)

\* The rows of the chosen column that have a path: each cell trimmed, the
\* empty ones left out.
parsePointsFromCsv(csv) ==
    LET cells == [i \in 1..Len(csv) |-> trimString(csv[i])]
    IN  SelectSeq(cells, LAMBDA c : c # EmptyString)

\* The tree nodes the graph draws: hidden subtrees are left out, the root
\* never is.
visibleNodes ==
    {n \in treeFolderPathSet :
        n = <<RootName>>
        \/ ~isAtOrDownstreamOfAnyFolderPath(n, hiddenFolderPaths)}

(***************************************************************************)
(* What the panels compute from the state  (Sidebar, Devices)              *)
(***************************************************************************)
\* a.localeCompare(b) < 0 on path keys: piece by piece, a prefix first.
PieceOrder == <<"A", "B", "root", "x", "y", "Z">>
pieceRank(s) == CHOOSE i \in DOMAIN PieceOrder : PieceOrder[i] = s
pathLess(a, b) ==
    \/ Len(a) < Len(b) /\ \A i \in 1..Len(a) : a[i] = b[i]
    \/ \E i \in 1..Len(a) :
          /\ i <= Len(b)
          /\ \A j \in 1..(i - 1) : a[j] = b[j]
          /\ a[i] # b[i]
          /\ pieceRank(a[i]) < pieceRank(b[i])

firstSorted(S) == CHOOSE p \in S : \A q \in S \ {p} : pathLess(p, q)

nonDeviceSelectedPaths == selectedPaths \ devicePaths
markDisabled == selectedPaths = {} \/ selectedPaths \subseteq devicePaths
mergeDisabled == markDisabled \/ Cardinality(nonDeviceSelectedPaths) < 2
pruneDisabled == Cardinality(nonDeviceSelectedPaths) < 1

\* The rows of the Devices panel: one per merged group, one per device
\* that is in no group.  A row stands for its member paths.
mergedMemberSet == UNION {md.memberPaths : md \in mergedDevices}
deviceItems ==
    {[kind |-> "merged", id |-> md.id, name |-> md.name,
      memberPaths |-> md.memberPaths] : md \in mergedDevices}
    \cup {[kind |-> "device", id |-> 0, name |-> "", memberPaths |-> {q}] :
            q \in devicePaths \ mergedMemberSet}
checkedDevicePaths(checked) ==
    UNION {it.memberPaths \cap devicePaths : it \in checked}

\* A dialog (merge, overlap warning) covers the panels: while one is open
\* the user reaches only the dialog's own controls.
DialogOpen == pendingConflict.pending \/ pendingMerge.pending
Idle == effectsDue = {} /\ ~DialogOpen

(***************************************************************************)
(* Data loading  (App onUploadCsv, onSelectColumn, onSelectTypeColumn)     *)
(***************************************************************************)
\* onUploadCsv up to its await: the file read is started.
UploadStart(f) ==
    /\ Idle
    /\ Len(fileReads) < MaxUploads
    /\ fileReads' = Append(fileReads, f)
    /\ lastOp' = OtherOp
    /\ UNCHANGED <<csvText, selectedColumn, paths, treeFolderPathSet, devicePaths, mergedDevices,
                   deviceNameByPath, selectedPaths, hiddenFolderPaths,
                   pendingConflict, pendingMerge, mergeName, effectsDue,
                   planDevices>>
    /\ UNCHANGED probe

\* onUploadCsv after its await: the text is there and everything that
\* depends on the data is reset.
UploadComplete(f) ==
    /\ effectsDue = {}
    /\ fileReads # <<>>
    /\ f = Head(fileReads)
    /\ fileReads' = Tail(fileReads)
    /\ csvText' = f
    /\ selectedColumn' = ""
    /\ paths' = <<>>
    /\ treeFolderPathSet' = {}
    /\ devicePaths' = {}
    /\ selectedPaths' = {}
    /\ hiddenFolderPaths' = {}
    /\ effectsDue' = {DevicesEffect} \cup (IF paths # <<>> THEN {TreeEffect} ELSE {})
    /\ lastOp' = "uploaded"
    /\ UNCHANGED <<mergedDevices, deviceNameByPath, pendingConflict,
                   pendingMerge, mergeName, planDevices>>
    /\ UNCHANGED probe

onSelectColumn(col) ==
    /\ Idle
    /\ csvText # 0
    /\ selectedColumn' = col
    /\ paths' = IF csvText = 0 \/ col = "" THEN <<>>
                ELSE parsePointsFromCsv(CsvFiles[csvText])
    /\ treeFolderPathSet' = treeFolderPathSetOf(paths')
    /\ devicePaths' = {}
    /\ selectedPaths' = {}
    /\ hiddenFolderPaths' = {}
    /\ effectsDue' = {DevicesEffect}
                     \cup (IF paths # <<>> \/ paths' # <<>> THEN {TreeEffect} ELSE {})
    /\ lastOp' = OtherOp
    /\ UNCHANGED <<csvText, mergedDevices, deviceNameByPath, pendingConflict,
                   pendingMerge, mergeName, fileReads, planDevices>>
    /\ UNCHANGED probe

\* Choosing the type column parses the same rows again: the paths are a
\* new array with the same content, and the tree is rebuilt.
onSelectTypeColumn ==
    /\ Idle
    /\ csvText # 0
    /\ paths' = IF selectedColumn = "" THEN paths
                ELSE parsePointsFromCsv(CsvFiles[csvText])
    /\ treeFolderPathSet' = treeFolderPathSetOf(paths')
    /\ effectsDue' = IF paths' # <<>> /\ selectedColumn # ""
                     THEN {TreeEffect} ELSE {}
    /\ lastOp' = OtherOp
    /\ UNCHANGED <<csvText, selectedColumn, devicePaths, mergedDevices,
                   deviceNameByPath, selectedPaths, hiddenFolderPaths,
                   pendingConflict, pendingMerge, mergeName, fileReads,
                   planDevices>>
    /\ UNCHANGED probe

(***************************************************************************)
(* Selection  (App selectSingle, toggleSelection, setSelection)            *)
(***************************************************************************)
selectSingle(path) ==
    /\ Idle
    /\ path \in visibleNodes
    /\ selectedPaths' = {path}
    /\ lastOp' = OtherOp
    /\ UNCHANGED <<csvText, selectedColumn, paths, treeFolderPathSet, devicePaths, mergedDevices,
                   deviceNameByPath, hiddenFolderPaths, pendingConflict,
                   pendingMerge, mergeName, fileReads, effectsDue, planDevices>>
    /\ UNCHANGED probe

toggleSelection(path) ==
    /\ Idle
    /\ path \in visibleNodes
    /\ selectedPaths' = IF path \in selectedPaths THEN selectedPaths \ {path}
                        ELSE selectedPaths \cup {path}
    /\ lastOp' = OtherOp
    /\ UNCHANGED <<csvText, selectedColumn, paths, treeFolderPathSet, devicePaths, mergedDevices,
                   deviceNameByPath, hiddenFolderPaths, pendingConflict,
                   pendingMerge, mergeName, fileReads, effectsDue, planDevices>>
    /\ UNCHANGED probe

\* A click on the background clears the selection; a box adds what it
\* picked to the selection.
setSelection(next) ==
    /\ Idle
    /\ treeFolderPathSet # {}
    /\ selectedPaths' = next
    /\ lastOp' = OtherOp
    /\ UNCHANGED <<csvText, selectedColumn, paths, treeFolderPathSet, devicePaths, mergedDevices,
                   deviceNameByPath, hiddenFolderPaths, pendingConflict,
                   pendingMerge, mergeName, fileReads, effectsDue, planDevices>>
    /\ UNCHANGED probe

(***************************************************************************)
(* Device Set mutations  (App addDevices, applyDeviceChange,               *)
(* markSelectionAsDevices, confirmDeviceConflict, cancelDeviceConflict,    *)
(* removeDevices)                                                          *)
(***************************************************************************)
addDevicesReplace(prev, pathsToAdd) == pathsToAdd

addDevices(prev, pathsToAdd) == prev \cup pathsToAdd

applyDeviceChangeAddOnly(prev, nextAdd, nextRemove) == prev \cup nextAdd

applyDeviceChange(prev, nextAdd, nextRemove) == (prev \ nextRemove) \cup nextAdd

\* The "Mark as device" button of the Sidebar.
markSelectionAsDevices ==
    /\ Idle
    /\ ~markDisabled
    /\ selectedPaths # {}
    /\ LET plan == planOf(selectedPaths, devicePaths, points)
       IN  IF needsConfirmation(plan)
           THEN /\ pendingConflict' = [pending |-> TRUE] @@ plan
                /\ planDevices' = devicePaths
                /\ lastOp' = "markPending"
                /\ UNCHANGED <<devicePaths, selectedPaths, effectsDue>>
           ELSE /\ devicePaths' = addDevices(devicePaths, plan.toAdd)
                /\ selectedPaths' = {}
                /\ effectsDue' = IF plan.toAdd # {} THEN {DevicesEffect} ELSE {}
                /\ lastOp' = "markApplied"
                /\ UNCHANGED <<pendingConflict, planDevices>>
    /\ UNCHANGED <<csvText, selectedColumn, paths, treeFolderPathSet, mergedDevices,
                   deviceNameByPath, hiddenFolderPaths, pendingMerge,
                   mergeName, fileReads>>
    /\ UNCHANGED probe

\* "Continue" in the overlap warning.
confirmDeviceConflict ==
    /\ effectsDue = {}
    /\ pendingConflict.pending
    /\ devicePaths' = applyDeviceChange(devicePaths, pendingConflict.toAdd,
                                        pendingConflict.toRemove)
    /\ pendingConflict' = NoConflict
    /\ selectedPaths' = {}
    /\ effectsDue' = {DevicesEffect}
    /\ planDevices' = {}
    /\ lastOp' = "confirmDeviceConflict"
    /\ UNCHANGED <<csvText, selectedColumn, paths, treeFolderPathSet, mergedDevices,
                   deviceNameByPath, hiddenFolderPaths, pendingMerge,
                   mergeName, fileReads>>
    /\ UNCHANGED probe

cancelDeviceConflictClearsSelection ==
    /\ effectsDue = {}
    /\ pendingConflict.pending
    /\ pendingConflict' = NoConflict
    /\ selectedPaths' = {}
    /\ planDevices' = {}
    /\ lastOp' = "cancelDeviceConflict"
    /\ UNCHANGED <<csvText, selectedColumn, paths, treeFolderPathSet, devicePaths, mergedDevices,
                   deviceNameByPath, hiddenFolderPaths,
                   pendingMerge, mergeName, fileReads, effectsDue>>
    /\ UNCHANGED probe

\* "Cancel" in the overlap warning.
cancelDeviceConflict ==
    /\ effectsDue = {}
    /\ pendingConflict.pending
    /\ pendingConflict' = NoConflict
    /\ planDevices' = {}
    /\ lastOp' = "cancelDeviceConflict"
    /\ UNCHANGED <<csvText, selectedColumn, paths, treeFolderPathSet, devicePaths, mergedDevices,
                   deviceNameByPath, selectedPaths, hiddenFolderPaths,
                   pendingMerge, mergeName, fileReads, effectsDue>>
    /\ UNCHANGED probe

\* The delete button of the Devices panel, for the checked rows.
removeDevices(pathsToRemove) ==
    /\ Idle
    /\ pathsToRemove # {}
    /\ devicePaths' = devicePaths \ pathsToRemove
    /\ effectsDue' = {DevicesEffect}
    /\ lastOp' = "removeDevices"
    /\ UNCHANGED <<csvText, selectedColumn, paths, treeFolderPathSet, mergedDevices,
                   deviceNameByPath, selectedPaths, hiddenFolderPaths,
                   pendingConflict, pendingMerge, mergeName, fileReads,
                   planDevices>>
    /\ UNCHANGED probe

\* The updater of renameDevice: a blank name deletes the override, any
\* other name is stored trimmed.
renameOverrides(prev, path, nextName) ==
    IF trim(nextName) = ""
    THEN [k \in DOMAIN prev \ {path} |-> prev[k]]
    ELSE [k \in DOMAIN prev \cup {path} |->
             IF k = path THEN trim(nextName) ELSE prev[k]]

renameDevice(path, nextName) ==
    /\ Idle
    /\ path \in devicePaths \ mergedMemberSet
    /\ Cardinality(DOMAIN deviceNameByPath \cup {path}) <= MaxOverrides
    /\ deviceNameByPath' = renameOverrides(deviceNameByPath, path, nextName)
    /\ lastOp' = OtherOp
    /\ UNCHANGED <<csvText, selectedColumn, paths, treeFolderPathSet, devicePaths, mergedDevices,
                   selectedPaths, hiddenFolderPaths, pendingConflict,
                   pendingMerge, mergeName, fileReads, effectsDue, planDevices>>
    /\ UNCHANGED probe

(***************************************************************************)
(* Merge Manager  (App beginMergeDevices, cancelMergeDevices,              *)
(* confirmMergeDevices)                                                    *)
(***************************************************************************)
\* The identifier of a new group: one that no existing group has.
freshId(merged) ==
    CHOOSE n \in 1..(Cardinality(merged) + 1) :
        /\ \A md \in merged : md.id # n
        /\ \A m \in 1..(n - 1) : \E md \in merged : md.id = m

keptMergedDevicesAll(prev, memberSet) == prev

\* prev.filter((md) => !md.memberPaths.some((p) => memberSet.has(p)))
keptMergedDevices(prev, memberSet) ==
    {md \in prev : md.memberPaths \cap memberSet = {}}

beginMergeDevicesAlways(memberPathsToMerge, suggestedName) ==
    /\ Idle
    /\ pendingMerge' = [pending |-> TRUE,
                        memberPaths |-> memberPathsToMerge \ {EmptyString},
                        suggestedName |-> suggestedName]
    /\ mergeName' = suggestedName
    /\ lastOp' = "beginMergeDevices"
    /\ UNCHANGED <<csvText, selectedColumn, paths, treeFolderPathSet, devicePaths, mergedDevices,
                   deviceNameByPath, selectedPaths, hiddenFolderPaths,
                   pendingConflict, fileReads, effectsDue, planDevices>>
    /\ UNCHANGED probe

\* Fewer than two distinct non-empty paths: the handler returns at once.
beginMergeDevices(memberPathsToMerge, suggestedName) ==
    /\ Idle
    /\ IF Cardinality(memberPathsToMerge \ {EmptyString}) < 2
       THEN UNCHANGED <<pendingMerge, mergeName>>
       ELSE /\ pendingMerge' =
                  [pending |-> TRUE,
                   memberPaths |-> memberPathsToMerge \ {EmptyString},
                   suggestedName |-> suggestedName]
            /\ mergeName' = suggestedName
    /\ lastOp' = "beginMergeDevices"
    /\ UNCHANGED <<csvText, selectedColumn, paths, treeFolderPathSet, devicePaths, mergedDevices,
                   deviceNameByPath, selectedPaths, hiddenFolderPaths,
                   pendingConflict, fileReads, effectsDue, planDevices>>
    /\ UNCHANGED probe

\* Typing in the name input of the merge dialog.
setMergeName(value) ==
    /\ effectsDue = {}
    /\ pendingMerge.pending
    /\ value # mergeName
    /\ mergeName' = value
    /\ lastOp' = OtherOp
    /\ UNCHANGED <<csvText, selectedColumn, paths, treeFolderPathSet, devicePaths, mergedDevices,
                   deviceNameByPath, selectedPaths, hiddenFolderPaths,
                   pendingConflict, pendingMerge, fileReads, effectsDue,
                   planDevices>>
    /\ UNCHANGED probe

cancelMergeDevices ==
    /\ effectsDue = {}
    /\ pendingMerge.pending
    /\ pendingMerge' = NoMerge
    /\ mergeName' = ""
    /\ lastOp' = "cancelMergeDevices"
    /\ UNCHANGED <<csvText, selectedColumn, paths, treeFolderPathSet, devicePaths, mergedDevices,
                   deviceNameByPath, selectedPaths, hiddenFolderPaths,
                   pendingConflict, fileReads, effectsDue, planDevices>>
    /\ UNCHANGED probe

confirmMergeDevicesAnyName ==
    /\ effectsDue = {}
    /\ ~pendingConflict.pending
    /\ IF ~pendingMerge.pending
       THEN UNCHANGED <<devicePaths, mergedDevices, pendingMerge, mergeName,
                        effectsDue>>
       ELSE /\ Cardinality(keptMergedDevices(mergedDevices,
                                pendingMerge.memberPaths)) < MaxMergedDevices
            /\ devicePaths' = devicePaths \cup pendingMerge.memberPaths
            /\ mergedDevices' =
                  keptMergedDevices(mergedDevices, pendingMerge.memberPaths)
                  \cup {[id |-> freshId(mergedDevices),
                         name |-> trim(mergeName),
                         memberPaths |-> pendingMerge.memberPaths]}
            /\ pendingMerge' = NoMerge
            /\ mergeName' = ""
            /\ effectsDue' = {DevicesEffect}
    /\ lastOp' = "confirmMergeDevices"
    /\ UNCHANGED <<csvText, selectedColumn, paths, treeFolderPathSet, deviceNameByPath,
                   selectedPaths, hiddenFolderPaths, pendingConflict,
                   fileReads, planDevices>>
    /\ UNCHANGED probe

confirmMergeDevicesRawName ==
    /\ effectsDue = {}
    /\ ~pendingConflict.pending
    /\ IF ~pendingMerge.pending \/ trim(mergeName) = ""
       THEN UNCHANGED <<devicePaths, mergedDevices, pendingMerge, mergeName,
                        effectsDue>>
       ELSE /\ Cardinality(keptMergedDevices(mergedDevices,
                                pendingMerge.memberPaths)) < MaxMergedDevices
            /\ devicePaths' = devicePaths \cup pendingMerge.memberPaths
            /\ mergedDevices' =
                  keptMergedDevices(mergedDevices, pendingMerge.memberPaths)
                  \cup {[id |-> freshId(mergedDevices),
                         name |-> mergeName,
                         memberPaths |-> pendingMerge.memberPaths]}
            /\ pendingMerge' = NoMerge
            /\ mergeName' = ""
            /\ effectsDue' = {DevicesEffect}
    /\ lastOp' = "confirmMergeDevices"
    /\ UNCHANGED <<csvText, selectedColumn, paths, treeFolderPathSet, deviceNameByPath,
                   selectedPaths, hiddenFolderPaths, pendingConflict,
                   fileReads, planDevices>>
    /\ UNCHANGED probe

\* No staged merge, or a name that is empty once trimmed: the handler
\* returns at once.
confirmMergeDevices ==
    /\ effectsDue = {}
    /\ ~pendingConflict.pending
    /\ IF ~pendingMerge.pending \/ trim(mergeName) = ""
       THEN UNCHANGED <<devicePaths, mergedDevices, pendingMerge, mergeName,
                        effectsDue>>
       ELSE /\ Cardinality(keptMergedDevices(mergedDevices,
                                pendingMerge.memberPaths)) < MaxMergedDevices
            /\ devicePaths' = devicePaths \cup pendingMerge.memberPaths
            /\ mergedDevices' =
                  keptMergedDevices(mergedDevices, pendingMerge.memberPaths)
                  \cup {[id |-> freshId(mergedDevices),
                         name |-> trim(mergeName),
                         memberPaths |-> pendingMerge.memberPaths]}
            /\ pendingMerge' = NoMerge
            /\ mergeName' = ""
            /\ effectsDue' = {DevicesEffect}
    /\ lastOp' = "confirmMergeDevices"
    /\ UNCHANGED <<csvText, selectedColumn, paths, treeFolderPathSet, deviceNameByPath,
                   selectedPaths, hiddenFolderPaths, pendingConflict,
                   fileReads, planDevices>>
    /\ UNCHANGED probe

(***************************************************************************)
(* Hiding  (App pruneSelectedFolders, onUnhideHiddenFolders) and the       *)
(* effects React runs after a render                                       *)
(***************************************************************************)
pruneSelectedFoldersAppend(pathsToHide) ==
    /\ Idle
    /\ LET nextToHide == {trimString(q) : q \in pathsToHide} \ {EmptyString}
       IN  /\ nextToHide # {}
           /\ hiddenFolderPaths' =
                 hiddenFolderPaths \cup nextToHide
           /\ selectedPaths' =
                 {q \in selectedPaths :
                     ~isAtOrDownstreamOfAnyFolderPath(q, nextToHide)}
    /\ lastOp' = "pruneSelectedFolders"
    /\ UNCHANGED <<csvText, selectedColumn, paths, treeFolderPathSet, devicePaths, mergedDevices,
                   deviceNameByPath, pendingConflict, pendingMerge, mergeName,
                   fileReads, effectsDue, planDevices>>
    /\ UNCHANGED probe

pruneSelectedFolders(pathsToHide) ==
    /\ Idle
    /\ LET nextToHide == {trimString(q) : q \in pathsToHide} \ {EmptyString}
       IN  /\ nextToHide # {}
           /\ hiddenFolderPaths' =
                 normalizeHiddenFolderPaths(hiddenFolderPaths \cup nextToHide,
                                            treeFolderPathSet)
           /\ selectedPaths' =
                 {q \in selectedPaths :
                     ~isAtOrDownstreamOfAnyFolderPath(q, nextToHide)}
    /\ lastOp' = "pruneSelectedFolders"
    /\ UNCHANGED <<csvText, selectedColumn, paths, treeFolderPathSet, devicePaths, mergedDevices,
                   deviceNameByPath, pendingConflict, pendingMerge, mergeName,
                   fileReads, effectsDue, planDevices>>
    /\ UNCHANGED probe

onUnhideHiddenFolders(pathsToUnhide) ==
    /\ Idle
    /\ pathsToUnhide # {}
    /\ hiddenFolderPaths' = hiddenFolderPaths \ pathsToUnhide
    /\ lastOp' = OtherOp
    /\ UNCHANGED <<csvText, selectedColumn, paths, treeFolderPathSet, devicePaths, mergedDevices,
                   deviceNameByPath, selectedPaths, pendingConflict,
                   pendingMerge, mergeName, fileReads, effectsDue, planDevices>>
    /\ UNCHANGED probe

\* The effects that depend on devicePaths prune the merged groups and the
\* name overrides; the one that depends on the tree normalizes the hidden
\* set.  They run before the next event is handled.
RunEffects ==
    /\ effectsDue # {}
    /\ mergedDevices' = IF DevicesEffect \in effectsDue
                        THEN pruneMergedDevices(mergedDevices, devicePaths)
                        ELSE mergedDevices
    /\ deviceNameByPath' = IF DevicesEffect \in effectsDue
                           THEN pruneDeviceNames(deviceNameByPath, devicePaths)
                           ELSE deviceNameByPath
    /\ hiddenFolderPaths' =
          IF TreeEffect \in effectsDue
          THEN normalizeHiddenFolderPaths(hiddenFolderPaths, treeFolderPathSet)
          ELSE hiddenFolderPaths
    /\ effectsDue' = {}
    /\ lastOp' = IF lastOp = "removeDevices" THEN "removeDevicesSettled"
                  ELSE OtherOp
    /\ UNCHANGED <<csvText, selectedColumn, paths, treeFolderPathSet, devicePaths, selectedPaths,
                   pendingConflict, pendingMerge, mergeName, fileReads,
                   planDevices>>
    /\ UNCHANGED probe

Next ==
    \/ \E f \in CsvIds : UploadStart(f)
    \/ \E f \in CsvIds : UploadComplete(f)
    \/ onSelectColumn(PathColumn)
    \/ onSelectTypeColumn
    \/ \E q \in visibleNodes : selectSingle(q)
    \/ \E q \in visibleNodes : toggleSelection(q)
    \/ \E picked \in SUBSET visibleNodes : setSelection(selectedPaths \cup picked)
    \/ setSelection({})
    \/ markSelectionAsDevices
    \/ confirmDeviceConflict
    \/ cancelDeviceConflict
    \/ \E checked \in SUBSET deviceItems :
          removeDevices(checkedDevicePaths(checked))
    \/ \E q \in devicePaths, n \in RenameInputs : renameDevice(q, n)
    \/ /\ ~mergeDisabled
       /\ beginMergeDevices(nonDeviceSelectedPaths,
              displayDeviceName(firstSorted(nonDeviceSelectedPaths),
                                mergedDevices, deviceNameByPath))
    \/ \E checked \in SUBSET deviceItems, first \in deviceItems :
          /\ Cardinality(checked) >= 2
          /\ first \in checked
          /\ beginMergeDevices(checkedDevicePaths(checked),
                IF first.kind = "merged" THEN first.name
                ELSE displayDeviceName(CHOOSE q \in first.memberPaths : TRUE,
                                       mergedDevices, deviceNameByPath))
    \/ \E q \in devicePaths, blank \in SUBSET {EmptyString} :
          beginMergeDevices({q} \cup blank,
              displayDeviceName(q, mergedDevices, deviceNameByPath))
    \/ \E n \in MergeNameInputs : setMergeName(n)
    \/ cancelMergeDevices
    \/ confirmMergeDevices
    \/ /\ ~pruneDisabled
       /\ pruneSelectedFolders(nonDeviceSelectedPaths)
    \/ \E unhide \in SUBSET hiddenFolderPaths : onUnhideHiddenFolders(unhide)
    \/ RunEffects

Spec == Init /\ [][Next]_vars

(***************************************************************************)
(* The library functions on their own: the initial state holds the         *)
(* arguments of one call, the call puts the result next to them.           *)
(***************************************************************************)
Pieces == {"root", "A", "B", "", " A"}

\* The path strings of up to MaxPieces pieces.
RawPaths == UNION {[1..n -> Pieces] : n \in 1..MaxPieces}

\* The point paths of a data set with nested folders, a folder named like
\* the root, padded and doubled separators and a point in no folder.
LibPointPaths ==
    << <<"A", "B", "A", "x">>, <<"B", "x">>, <<"root", "A", "x">>,
       <<" A", "x">>, <<"y">>, <<"A", "", "B", "x">> >>

\* The folder paths of that data set's tree: what a selection and a Device
\* Set are made of.
LibFolderKeys == Range(buildFolderTreeFromPaths(LibPointPaths, RootName))

\* Device arrays: up to MaxDevices distinct folder paths, in any order.
DeviceLists ==
    {l \in UNION {[1..n -> LibFolderKeys] : n \in 0..MaxDevices} :
        \A i \in DOMAIN l : \A j \in DOMAIN l : i # j => l[i] # l[j]}

Selections == {S \in SUBSET LibFolderKeys : Cardinality(S) <= MaxSelected}

DeviceSets == {S \in SUBSET LibFolderKeys : Cardinality(S) <= MaxDevices}

\* What a hidden-folder list can hold: folder paths of the tree, the same
\* folder written without the root, with a doubled separator or padded, a
\* blank string, the root with a trailing separator, a folder not in the
\* tree.
HiddenStrings ==
    LibFolderKeys \cup
    { <<"A">>, <<"root", "", "A">>, <<" A">>, <<" ">>, <<"root", "">>,
      <<"root", "Z">> }

HiddenLists == {S \in SUBSET HiddenStrings : Cardinality(S) <= MaxSelected}

\* Export: the cells of the path column (point paths, an empty cell, a
\* blank cell, a point in no folder that is named like a folder), the
\* hidden sets and the naming of the devices (none, a merged group, an
\* override).
ExportCells ==
    Range(LibPointPaths) \cup {EmptyString, <<" ">>, <<"A">>}

HiddenSets ==
    {S \in SUBSET (LibFolderKeys \ {<<RootName>>}) : Cardinality(S) <= MaxHidden}

\* Tree building: lists of up to MaxTreePaths point paths, repeated ones
\* included, among them an empty cell and paths that share folders.
TreeInputPaths ==
    Range(LibPointPaths) \cup {EmptyString, <<"A", "x">>, <<"A", "B", "y">>}

TreeInputLists == UNION {[1..n -> TreeInputPaths] : n \in 0..MaxTreePaths}

\* Display names: the paths asked about (folder paths of the tree and one
\* with an escaped leaf), the merged groups and overrides in force, and a
\* renameDevice made just before (none, or a path and the name typed).
DisplayPaths == LibFolderKeys \cup {<<"root", "$41">>}

DisplayMerged ==
    { {},
      {[id |-> 1, name |-> "B",
        memberPaths |-> {<<"root", "A">>, <<"root", "B">>}]} }

DisplayOverrides ==
    { EmptyNames,
      [p \in {<<"root", "A">>} |-> "Z"],
      [p \in {<<"root", "A", "B">>, <<"root", "$41">>} |-> "Z"] }

DisplayRenames ==
    {<<>>} \cup {<<q, n>> : q \in DisplayPaths, n \in RenameInputs \cup {""}}

ExportNamings ==
    { [merged |-> {}, nameByPath |-> EmptyNames],
      [merged |-> {[id |-> 1, name |-> " A",
                    memberPaths |-> {<<"root", "B">>, <<"root", "A", "B">>}]},
       nameByPath |-> EmptyNames],
      [merged |-> {},
       nameByPath |-> [p \in {<<"root", "A">>} |-> "Z"]] }

\* The arguments of one call of fn, not made yet.
callOf(fn, args) ==
    [fn |-> fn, args |-> args, called |-> FALSE, result |-> <<>>]

LibInit ==
    /\ csvText = 0
    /\ selectedColumn = ""
    /\ paths = <<>>
    /\ treeFolderPathSet = {}
    /\ devicePaths = {}
    /\ mergedDevices = {}
    /\ deviceNameByPath = EmptyNames
    /\ selectedPaths = {}
    /\ hiddenFolderPaths = {}
    /\ pendingConflict = NoConflict
    /\ pendingMerge = NoMerge
    /\ mergeName = ""
    /\ fileReads = <<>>
    /\ effectsDue = {}
    /\ planDevices = {}
    /\ lastOp = "init"
    /\ \/ \E a \in RawPaths, b \in RawPaths :
             probe = callOf("getPathRelation", <<a, b>>)
       \/ \E pt \in Range(LibPointPaths) \cup RawPaths, devices \in DeviceLists :
             probe = callOf("computeOwnerDevice", <<pt, devices>>)
       \/ \E current \in DeviceLists, next \in DeviceLists :
             probe = callOf("computeReassignmentGroups", <<current, next>>)
       \/ \E selected \in Selections \ {{}}, devices \in DeviceSets :
             probe = callOf("markSelectionAsDevices", <<selected, devices>>)
       \/ \E cell \in ExportCells, hidden \in HiddenSets,
             devices \in DeviceLists, naming \in ExportNamings :
             probe = callOf("exportCsvWithDeviceNames",
                            <<cell, hidden, devices, naming>>)
       \/ \E p \in DisplayPaths, merged \in DisplayMerged,
             nameByPath \in DisplayOverrides, rename \in DisplayRenames :
             probe = callOf("displayDeviceName",
                            <<p, merged, nameByPath, rename>>)
       \/ \E pointPaths \in TreeInputLists :
             probe = callOf("buildFolderTreeFromPaths", <<pointPaths>>)
       \/ \E incoming \in HiddenLists, treeSet \in {{}, LibFolderKeys} :
             probe = callOf("normalizeHiddenFolderPaths",
                            <<incoming, treeSet>>)

callGetPathRelation ==
    /\ probe.fn = "getPathRelation"
    /\ ~probe.called
    /\ probe' = [probe EXCEPT !.called = TRUE,
                   !.result = getPathRelation(probe.args[1], probe.args[2])]
    /\ UNCHANGED appVars

callComputeOwnerDevice ==
    /\ probe.fn = "computeOwnerDevice"
    /\ ~probe.called
    /\ probe' = [probe EXCEPT !.called = TRUE,
                   !.result = computeOwnerDevice(probe.args[1], probe.args[2])]
    /\ UNCHANGED appVars

callComputeReassignmentGroups ==
    /\ probe.fn = "computeReassignmentGroups"
    /\ ~probe.called
    /\ probe' = [probe EXCEPT !.called = TRUE,
                   !.result = computeReassignmentGroups(probe.args[1],
                                  probe.args[2], LibPointPaths)]
    /\ UNCHANGED appVars

\* The plan markSelectionAsDevices computes, before it decides to ask.
callMarkSelectionAsDevices ==
    /\ probe.fn = "markSelectionAsDevices"
    /\ ~probe.called
    /\ probe' = [probe EXCEPT !.called = TRUE,
                   !.result = planOf(probe.args[1], probe.args[2],
                                     LibPointPaths)]
    /\ UNCHANGED appVars

callNormalizeHiddenFolderPaths ==
    /\ probe.fn = "normalizeHiddenFolderPaths"
    /\ ~probe.called
    /\ probe' = [probe EXCEPT !.called = TRUE,
                   !.result = normalizeHiddenFolderPaths(probe.args[1],
                                                         probe.args[2])]
    /\ UNCHANGED appVars

\* One row of the export: the cell is trimmed, then labelled.
callExportCsvWithDeviceNames ==
    /\ probe.fn = "exportCsvWithDeviceNames"
    /\ ~probe.called
    /\ probe' = [probe EXCEPT !.called = TRUE,
                   !.result = exportLabel(trimString(probe.args[1]),
                                  probe.args[2], probe.args[3],
                                  probe.args[4].merged,
                                  probe.args[4].nameByPath)]
    /\ UNCHANGED appVars

\* The node paths of the tree, the root first.
callBuildFolderTreeFromPaths ==
    /\ probe.fn = "buildFolderTreeFromPaths"
    /\ ~probe.called
    /\ probe' = [probe EXCEPT !.called = TRUE,
                   !.result = buildFolderTreeFromPaths(probe.args[1],
                                                       RootName)]
    /\ UNCHANGED appVars

\* The overrides after the renameDevice of a call, if it has one.
overridesAfter(prev, rename) ==
    IF Len(rename) = 0 THEN prev
    ELSE renameOverrides(prev, rename[1], rename[2])

callDisplayDeviceName ==
    /\ probe.fn = "displayDeviceName"
    /\ ~probe.called
    /\ probe' = [probe EXCEPT !.called = TRUE,
                   !.result = displayDeviceName(probe.args[1], probe.args[2],
                                  overridesAfter(probe.args[3],
                                                 probe.args[4]))]
    /\ UNCHANGED appVars

LibNext ==
    \/ callGetPathRelation
    \/ callComputeOwnerDevice
    \/ callComputeReassignmentGroups
    \/ callMarkSelectionAsDevices
    \/ callNormalizeHiddenFolderPaths
    \/ callExportCsvWithDeviceNames
    \/ callDisplayDeviceName
    \/ callBuildFolderTreeFromPaths

LibSpec == LibInit /\ [][LibNext]_vars

(***************************************************************************)
(* Properties of the library functions                                     *)
(***************************************************************************)
Called(fn) == probe.fn = fn /\ probe.called

inverseRelation(r) == CASE r = "ancestor" -> "descendant"
                        [] r = "descendant" -> "ancestor"
                        [] OTHER -> r

\* A path that is more than the root: it has a comparable segment.
NotRootOnly(p) == toComparableSegments(p) # <<>>

\* C9: for folder paths a and b that are not root-only, getPathRelation(a,b)
\* and getPathRelation(b,a) are inverse: ancestor with descendant, same with
\* same, disjoint with disjoint.
C9_RelationInverse ==
    (Called("getPathRelation")
        /\ NotRootOnly(probe.args[1]) /\ NotRootOnly(probe.args[2])) =>
        /\ probe.result \in {"ancestor", "descendant", "same", "disjoint"}
        /\ getPathRelation(probe.args[2], probe.args[1])
              = inverseRelation(probe.result)

\* C9 witness: two different strings for the same folder were compared, and
\* so were a folder and the folder above it.
C9_Witness ==
    /\ Called("getPathRelation")
    /\ NotRootOnly(probe.args[1]) /\ NotRootOnly(probe.args[2])
    /\ probe.args[1] # probe.args[2]
    /\ probe.result = "same"

qualifying(pointPath, devices) ==
    {d \in Range(devices) : getPathRelation(d, pointPath) \in {"ancestor", "same"}}

invariantHolds(devices) ==
    \A a \in Range(devices) : \A b \in Range(devices) : ~Nested(a, b)

\* C10: for a point path and a Device Set with no ancestor/descendant pair,
\* at most one device is ancestor-or-same of the point, and
\* computeOwnerDevice returns that device, or none when there is no such
\* device.
C10_OwnerIsTheOnlyQualifying ==
    (Called("computeOwnerDevice") /\ invariantHolds(probe.args[2])) =>
        LET q == qualifying(probe.args[1], probe.args[2])
        IN  /\ Cardinality(q) <= 1
            /\ q = {} => probe.result = None
            /\ q # {} => probe.result \in q

\* C10 witness: the owner of a point was found as the second of two devices.
C10_Witness ==
    /\ Called("computeOwnerDevice")
    /\ invariantHolds(probe.args[2])
    /\ Len(probe.args[2]) = 2
    /\ probe.result = probe.args[2][2]

\* C7: computeReassignmentGroups reports a point if and only if its owner
\* under the current devices and its owner under the next devices are both
\* not none and differ, and a reported point is in exactly one group, the
\* one keyed by its (previous owner, next owner) pair.
C7_ReportedIffOwnerChanges ==
    Called("computeReassignmentGroups") =>
        \A pt \in Range(LibPointPaths) :
            LET from == computeOwnerDevice(pt, probe.args[1])
                to == computeOwnerDevice(pt, probe.args[2])
                holders == {g \in probe.result : pt \in g.pointPaths}
            IN  /\ holders # {} <=> (from # None /\ to # None /\ from # to)
                /\ Cardinality(holders) <= 1
                /\ \A g \in holders :
                      g.fromDevicePath = from /\ g.toDevicePath = to

\* C7 witness: one point moved from one device to another and is reported,
\* another lost its owner and is not.
C7_Witness ==
    /\ Called("computeReassignmentGroups")
    /\ probe.result # {}
    /\ \E pt \in Range(LibPointPaths) :
          /\ computeOwnerDevice(pt, probe.args[1]) # None
          /\ computeOwnerDevice(pt, probe.args[2]) = None

\* C8: a selected candidate is dropped from the selection if and only if it
\* is a strict ancestor of another selected candidate and is added
\* otherwise; to-add and dropped partition the selection, and no two to-add
\* paths are in an ancestor/descendant relation.
C8_SelectionSelfOverlap ==
    Called("markSelectionAsDevices") =>
        LET selected == probe.args[1]
            plan == probe.result
        IN  /\ \A c \in selected :
                  /\ c \in plan.droppedFromSelection <=>
                        \E other \in selected \ {c} :
                            getPathRelation(c, other) = "ancestor"
                  /\ c \in plan.toAdd <=> c \notin plan.droppedFromSelection
            /\ plan.toAdd \cup plan.droppedFromSelection = selected
            /\ plan.toAdd \cap plan.droppedFromSelection = {}
            /\ \A a \in plan.toAdd : \A b \in plan.toAdd : ~Nested(a, b)

\* C8 witness: a folder and a folder below it were selected; the upper one
\* was dropped and the lower one kept.
C8_Witness ==
    /\ Called("markSelectionAsDevices")
    /\ <<"root", "A">> \in probe.result.droppedFromSelection
    /\ <<"root", "A", "B">> \in probe.result.toAdd

(***************************************************************************)
(* Properties of the App                                                   *)
(***************************************************************************)
\* C1: in every reachable state no path of the Device Set is an ancestor
\* or a descendant (per getPathRelation) of another path of the Device Set.
C1_DeviceSetNeverNested ==
    \A a \in devicePaths : \A b \in devicePaths : ~Nested(a, b)

\* C2: right after the planner was applied (markSelectionAsDevices applied
\* at once, or confirmDeviceConflict), no two paths of the resulting Device
\* Set are in an ancestor/descendant relation, whatever came before.
C2_PlannerResultNotNested ==
    lastOp \in {"markApplied", "confirmDeviceConflict"} =>
        \A a \in devicePaths : \A b \in devicePaths \ {a} :
            getPathRelation(a, b) # "ancestor"

\* C3: every folder path is in the memberPaths of at most one Merged Device.
C3_MergeUniqueness ==
    \A md1 \in mergedDevices : \A md2 \in mergedDevices :
        md1 # md2 => md1.memberPaths \cap md2.memberPaths = {}

\* C3 witness: a merge was confirmed while another group existed and both
\* groups are there.
C3_Witness ==
    /\ lastOp = "confirmMergeDevices"
    /\ DevicesEffect \in effectsDue
    /\ Cardinality(mergedDevices) = 2

C5_ImmediateApply ==
    [][ (/\ lastOp' \in {"markApplied", "markPending"}
         /\ toRemoveOf(devicePaths, toAddOf(selectedPaths)) = {}
         /\ droppedFromSelectionOf(selectedPaths) = {}) =>
            /\ devicePaths' = devicePaths \cup toAddOf(selectedPaths)
            /\ devicePaths \subseteq devicePaths'
            /\ selectedPaths' = {}
            /\ ~pendingConflict'.pending
      ]_vars

\* C5 witness: a selection was applied at once to a Device Set that had a
\* device already.
C5_Witness ==
    /\ lastOp = "markApplied"
    /\ Cardinality(devicePaths) >= 2

\* C6: after confirmDeviceConflict the Device Set is (the Device Set at
\* planning time minus the to-remove paths) union the to-add paths, and the
\* pending plan and the Selection are cleared.
C6_ConfirmYieldsProjectedState ==
    [][ (pendingConflict.pending /\ lastOp' = "confirmDeviceConflict") =>
            /\ devicePaths' = (planDevices \ pendingConflict.toRemove)
                                  \cup pendingConflict.toAdd
            /\ ~pendingConflict'.pending
            /\ selectedPaths' = {}
      ]_vars


(***************************************************************************)
(* Ownership against the folder tree                                       *)
(***************************************************************************)
\* The path of the tree node a point hangs under: the builder walks from
\* the root along the point's folder segments.
folderKeyOfPoint(pt) == <<RootName>> \o splitFolderSegments(pt)

\* A point under folder key is in that folder or in a folder beneath it.
isInOrBeneath(pt, key) ==
    /\ Len(key) <= Len(folderKeyOfPoint(pt))
    /\ SubSeq(folderKeyOfPoint(pt), 1, Len(key)) = key

\* C11: with the path of a folder node of the tree (other than the root
\* node) as the only device, computeOwnerDevice returns that path for
\* exactly the points in or beneath that folder and none for every other
\* point, also when point paths begin with a literal root segment.
C11_NodeOwnsItsSubtree ==
    (/\ Called("computeOwnerDevice")
     /\ Len(probe.args[2]) = 1
     /\ probe.args[2][1] # <<RootName>>
     /\ probe.args[1] \in Range(LibPointPaths)) =>
        /\ probe.result \in {None, probe.args[2][1]}
        /\ probe.result = probe.args[2][1]
              <=> isInOrBeneath(probe.args[1], probe.args[2][1])


(***************************************************************************)
(* The hidden-folder normalizer                                            *)
(***************************************************************************)
\* C12: normalizeHiddenFolderPaths is idempotent against a fixed tree, its
\* output never holds two paths of which one is the same as or an ancestor
\* of the other, and hiding root/A and root/A/B, in either order, leaves
\* exactly root/A.
C12_NormalizeIdempotentAndMinimal ==
    Called("normalizeHiddenFolderPaths") =>
        /\ normalizeHiddenFolderPaths(probe.result, probe.args[2])
              = probe.result
        /\ \A p \in probe.result : \A q \in probe.result \ {p} :
              getPathRelation(p, q) = "disjoint"
        /\ probe.args[1] = {<<"root", "A">>, <<"root", "A", "B">>} =>
              probe.result = {<<"root", "A">>}
        /\ probe.args[1] = {<<"root", "A">>} =>
              normalizeHiddenFolderPaths(
                  probe.result \cup {<<"root", "A", "B">>}, probe.args[2])
                = {<<"root", "A">>}
        /\ probe.args[1] = {<<"root", "A", "B">>} =>
              normalizeHiddenFolderPaths(
                  probe.result \cup {<<"root", "A">>}, probe.args[2])
                = {<<"root", "A">>}

\* The normalizer was given a folder and a folder beneath it, against the
\* loaded tree, and kept the upper one only.
C12_Witness ==
    /\ Called("normalizeHiddenFolderPaths")
    /\ probe.args[2] = LibFolderKeys
    /\ probe.args[1] = {<<"root", "A">>, <<"root", "A", "B">>}
    /\ probe.result = {<<"root", "A">>}


(***************************************************************************)
(* The Hidden Folder Set                                                   *)
(***************************************************************************)
\* C13: once the maintenance of the hidden set has run (the normalizing
\* effect after startup and after a data load, pruneSelectedFolders,
\* onUnhideHiddenFolders), no element of the Hidden Folder Set is an
\* ancestor or a descendant of another element.
C13_HiddenSetNeverNested ==
    TreeEffect \notin effectsDue =>
        \A p \in hiddenFolderPaths : \A q \in hiddenFolderPaths \ {p} :
            getPathRelation(p, q) \notin {"ancestor", "descendant"}

\* A folder with a subfolder in the tree was hidden by
\* pruneSelectedFolders and is the whole hidden set.
C13_Witness ==
    /\ lastOp = "pruneSelectedFolders"
    /\ effectsDue = {}
    /\ <<"root", "A", "B">> \in treeFolderPathSet
    /\ hiddenFolderPaths = {<<"root", "A">>}


(***************************************************************************)
(* Merging                                                                 *)
(***************************************************************************)
\* C14: invalid merge actions are no-ops.  beginMergeDevices with fewer
\* than two distinct non-empty paths stages nothing; confirmMergeDevices
\* with no pending merge or with a name that is empty after trimming
\* changes neither the Device Set nor the Merged Devices and leaves the
\* staged merge as it was; cancelMergeDevices discards the staged merge
\* and changes neither the Device Set, the Merged Devices nor the Name
\* Overrides.
C14_InvalidMergeActionsAreNoOps ==
    [][ /\ \A q \in devicePaths : \A blank \in SUBSET {EmptyString} :
              beginMergeDevices({q} \cup blank,
                  displayDeviceName(q, mergedDevices, deviceNameByPath)) =>
                     UNCHANGED <<pendingMerge, mergeName, devicePaths,
                                 mergedDevices>>
        /\ (/\ lastOp' = "confirmMergeDevices"
            /\ (~pendingMerge.pending \/ trim(mergeName) = "")) =>
               UNCHANGED <<devicePaths, mergedDevices, pendingMerge>>
        /\ lastOp' = "cancelMergeDevices" =>
               /\ pendingMerge.pending
               /\ pendingMerge' = NoMerge
               /\ UNCHANGED <<devicePaths, mergedDevices, deviceNameByPath>>
      ]_vars

\* The merge dialog is still open after a confirmation with a blank name,
\* over a Device Set and a merged group that are still there.
C14_Witness ==
    /\ lastOp = "confirmMergeDevices"
    /\ pendingMerge.pending
    /\ trim(mergeName) = ""
    /\ devicePaths # {}
    /\ mergedDevices # {}


\* C15: after a successful confirmMergeDevices every staged path is in
\* the Device Set (missing ones added, none removed); exactly one new
\* Merged Device exists, its memberPaths the staged paths and its name the
\* trimmed name; every earlier Merged Device that shared a member with the
\* staged paths is gone entirely, and every one sharing none is unchanged.
C15_SuccessfulMerge ==
    [][ (/\ lastOp' = "confirmMergeDevices"
         /\ pendingMerge.pending
         /\ trim(mergeName) # "") =>
            /\ devicePaths' = devicePaths \cup pendingMerge.memberPaths
            /\ Cardinality(mergedDevices' \ mergedDevices) = 1
            /\ \A new \in mergedDevices' \ mergedDevices :
                  /\ new.memberPaths = pendingMerge.memberPaths
                  /\ new.name = trim(mergeName)
                  /\ \A md \in mergedDevices : md.id # new.id
            /\ \A md \in mergedDevices :
                  IF md.memberPaths \cap pendingMerge.memberPaths # {}
                  THEN /\ md \notin mergedDevices'
                       /\ \A kept \in mergedDevices' : kept.id # md.id
                  ELSE md \in mergedDevices'
      ]_vars

\* Right after a merge that took over the members of the one earlier
\* group: the new group is the only one and the staged merge is gone.
C15_Witness ==
    /\ lastOp = "confirmMergeDevices"
    /\ ~pendingMerge.pending
    /\ effectsDue = {DevicesEffect}
    /\ Cardinality(mergedDevices) = 1
    /\ \A md \in mergedDevices :
          /\ md.id = 2
          /\ md.name = "A"
          /\ Cardinality(md.memberPaths) >= 2
          /\ md.memberPaths \subseteq devicePaths


\* C16: once the pruning effect has run after the Device Set lost a path
\* (removeDevices, a confirmed overlap plan, a data load), every Merged
\* Device has dropped that path and a Merged Device left without members
\* is deleted: in every settled state each Merged Device has at least one
\* member and all its members are in the Device Set.
C16_MergedDevicesFollowDeviceSet ==
    DevicesEffect \notin effectsDue =>
        \A md \in mergedDevices :
            /\ md.memberPaths # {}
            /\ md.memberPaths \subseteq devicePaths

\* A settled state with a merged group that has lost all members but one.
C16_Witness ==
    /\ effectsDue = {}
    /\ \E md \in mergedDevices :
          /\ Cardinality(md.memberPaths) = 1
          /\ md.memberPaths \subseteq devicePaths


(***************************************************************************)
(* Export                                                                  *)
(***************************************************************************)
\* The row's path is at or beneath an entry of the hidden set.
atOrBeneathHidden(pointPath, hidden) ==
    \E h \in hidden : getPathRelation(h, pointPath) \in {"same", "ancestor"}

\* C17: the export label of a row is "-" when the row's path is at or
\* beneath an entry of the Hidden Folder Set, whatever device would own
\* it; otherwise it is the display name of computeOwnerDevice(path, Device
\* Set), or the empty string when there is no owner or the cell is empty.
C17_ExportLabel ==
    Called("exportCsvWithDeviceNames") =>
        probe.result =
            IF atOrBeneathHidden(probe.args[1], probe.args[2]) THEN "-"
            ELSE IF computeOwnerDevice(probe.args[1], probe.args[3]) = None
                 THEN ""
                 ELSE displayDeviceName(
                          computeOwnerDevice(probe.args[1], probe.args[3]),
                          probe.args[4].merged, probe.args[4].nameByPath)

\* A row beneath a hidden folder that a device would own was labelled "-".
C17_Witness ==
    /\ Called("exportCsvWithDeviceNames")
    /\ atOrBeneathHidden(probe.args[1], probe.args[2])
    /\ computeOwnerDevice(probe.args[1], probe.args[3]) # None
    /\ probe.result = "-"


(***************************************************************************)
(* The segment-prefix reference for path relations                         *)
(***************************************************************************)
\* The folder names of a path string: its pieces trimmed, the empty ones
\* left out, one leading root left out.
trimmedPieces(a) ==
    SelectSeq([i \in 1..Len(a) |-> trim(a[i])], LAMBDA piece : piece # "")

referenceSegments(a) ==
    IF trimmedPieces(a) # <<>> /\ Head(trimmedPieces(a)) = RootName
    THEN Tail(trimmedPieces(a))
    ELSE trimmedPieces(a)

isStrictPrefix(x, y) == Len(x) < Len(y) /\ SubSeq(y, 1, Len(x)) = x

segmentPrefixRelation(a, b) ==
    IF referenceSegments(a) = <<>> \/ referenceSegments(b) = <<>>
    THEN "disjoint"
    ELSE IF referenceSegments(a) = referenceSegments(b) THEN "same"
    ELSE IF isStrictPrefix(referenceSegments(a), referenceSegments(b))
    THEN "ancestor"
    ELSE IF isStrictPrefix(referenceSegments(b), referenceSegments(a))
    THEN "descendant"
    ELSE "disjoint"

\* C18: in the plan of markSelectionAsDevices an existing device path is
\* in to-remove if and only if it is a strict ancestor or a strict
\* descendant of at least one kept (to-add) candidate; it is an upstream
\* conflict exactly when it is an ancestor of some kept candidate and a
\* downstream conflict exactly when it is a descendant of one; an existing
\* path equal to a candidate is neither removed nor listed and stays in the
\* next Device Set.
C18_ExistingSetOverlap ==
    Called("markSelectionAsDevices") =>
        /\ probe.result.toRemove \subseteq probe.args[2]
        /\ probe.result.upstreamConflicts \subseteq probe.args[2]
        /\ probe.result.downstreamConflicts \subseteq probe.args[2]
        /\ \A existing \in probe.args[2] :
              /\ existing \in probe.result.toRemove <=>
                    \E c \in probe.result.toAdd :
                        segmentPrefixRelation(existing, c)
                            \in {"ancestor", "descendant"}
              /\ existing \in probe.result.upstreamConflicts <=>
                    \E c \in probe.result.toAdd :
                        segmentPrefixRelation(existing, c) = "ancestor"
              /\ existing \in probe.result.downstreamConflicts <=>
                    \E c \in probe.result.toAdd :
                        segmentPrefixRelation(existing, c) = "descendant"
              /\ existing \in probe.result.toAdd =>
                    /\ existing \notin probe.result.toRemove
                    /\ existing \notin probe.result.upstreamConflicts
                    /\ existing \notin probe.result.downstreamConflicts
                    /\ existing \in nextDevicesOf(probe.args[2],
                           probe.result.toAdd, probe.result.toRemove)

\* A plan over two existing devices: one is removed as the upstream
\* conflict of a kept candidate, the other is selected again and kept.
C18_Witness ==
    /\ Called("markSelectionAsDevices")
    /\ probe.result.upstreamConflicts # {}
    /\ probe.result.upstreamConflicts = probe.result.toRemove
    /\ probe.args[2] \cap probe.result.toAdd # {}


(***************************************************************************)
(* The owner resolver without the Device-Set invariant                     *)
(***************************************************************************)
\* The devices that are ancestor-or-same of the point by the reference.
referenceQualifying(pointPath, devices) ==
    {d \in Range(devices) :
        segmentPrefixRelation(d, pointPath) \in {"ancestor", "same"}}

\* C19: for any array of device paths, nested ones included,
\* computeOwnerDevice returns the device that is ancestor-or-same of the
\* point and has the greatest segment depth (segments after stripping the
\* root), and it returns none if and only if no device is ancestor-or-same
\* of the point.
C19_OwnerIsTheDeepestQualifying ==
    Called("computeOwnerDevice") =>
        /\ probe.result = None <=>
              referenceQualifying(probe.args[1], probe.args[2]) = {}
        /\ probe.result # None =>
              /\ probe.result
                    \in referenceQualifying(probe.args[1], probe.args[2])
              /\ \A d \in referenceQualifying(probe.args[1], probe.args[2]) :
                    d # probe.result =>
                        Len(referenceSegments(d))
                            < Len(referenceSegments(probe.result))

\* Two nested devices, both above the point, the deeper one first in the
\* array: the deeper one is the owner.
C19_Witness ==
    /\ Called("computeOwnerDevice")
    /\ Len(probe.args[2]) = 2
    /\ Cardinality(referenceQualifying(probe.args[1], probe.args[2])) = 2
    /\ probe.result = probe.args[2][1]
    /\ Len(referenceSegments(probe.args[2][2]))
          < Len(referenceSegments(probe.args[2][1]))


(***************************************************************************)
(* getPathRelation against the segment-prefix reference                    *)
(***************************************************************************)
\* C20: getPathRelation is total and equals the segment-prefix reference:
\* after normalizing and stripping one leading root segment, disjoint when
\* either segment list is empty (so even for root against root), otherwise
\* disjoint on a mismatch within the shorter length, same when the lists
\* are equal, ancestor when the first is a strict prefix of the second,
\* descendant when the second is a strict prefix of the first.
C20_RelationIsSegmentPrefix ==
    Called("getPathRelation") =>
        /\ probe.result \in {"same", "ancestor", "descendant", "disjoint"}
        /\ probe.result = segmentPrefixRelation(probe.args[1], probe.args[2])
        /\ (referenceSegments(probe.args[1]) = <<>>
            \/ referenceSegments(probe.args[2]) = <<>>) =>
               probe.result = "disjoint"

\* The root path was related to a folder path, and found disjoint.
C20_Witness ==
    /\ Called("getPathRelation")
    /\ probe.args[1] = <<RootName>>
    /\ probe.args[2] = <<RootName, "A">>
    /\ probe.result = "disjoint"


(***************************************************************************)
(* The Hidden Folder Set against the tree                                  *)
(***************************************************************************)
\* C21: once the hidden-folder normalizer has run, the Hidden Folder Set
\* holds neither the root path nor a path that is not a folder node of the
\* current tree, in every state: at startup with persisted hidden paths and
\* no data loaded, and after a data load.
C21_HiddenWithinTree ==
    TreeEffect \notin effectsDue =>
        /\ <<RootName>> \notin hiddenFolderPaths
        /\ hiddenFolderPaths \subseteq treeFolderPathSet


(***************************************************************************)
(* Name Overrides                                                          *)
(***************************************************************************)
\* C22: once the pruning effect has run after a path left the Device Set,
\* the Name Override of that path is gone: in every settled state the key
\* of every Name Override is in the Device Set, and the effect leaves the
\* overrides of the paths that are still in the Device Set as they were.
C22_OverridesFollowDeviceSet ==
    [][ /\ DevicesEffect \notin effectsDue' =>
              DOMAIN deviceNameByPath' \subseteq devicePaths'
        /\ (DevicesEffect \in effectsDue /\ DevicesEffect \notin effectsDue') =>
              \A k \in DOMAIN deviceNameByPath \cap devicePaths :
                  /\ k \in DOMAIN deviceNameByPath'
                  /\ deviceNameByPath'[k] = deviceNameByPath[k]
      ]_vars

\* The effects of a removeDevices have run: the override of a device that
\* stayed in the Device Set is still there.
C22_Witness ==
    /\ lastOp = "removeDevicesSettled"
    /\ effectsDue = {}
    /\ DOMAIN deviceNameByPath # {}
    /\ DOMAIN deviceNameByPath \subseteq devicePaths


(***************************************************************************)
(* Display names                                                           *)
(***************************************************************************)
\* The override the claim expects for p after the renameDevice of a call:
\* a blank name deletes it, another name replaces it, trimmed; "" is no
\* override.
overrideExpected(p, nameByPath, rename) ==
    IF Len(rename) = 2 /\ rename[1] = p
    THEN trim(rename[2])
    ELSE IF p \in DOMAIN nameByPath THEN nameByPath[p] ELSE ""

\* C23: the display name of a device path is the merged name when the
\* path is a member of a Merged Device, even if it has an override;
\* otherwise its non-empty override; otherwise, also after renameDevice
\* with an empty or whitespace-only name, the decoded last path segment.
C23_DisplayNamePrecedence ==
    Called("displayDeviceName") =>
        probe.result =
            IF \E md \in probe.args[2] : probe.args[1] \in md.memberPaths
            THEN (CHOOSE md \in probe.args[2] :
                     probe.args[1] \in md.memberPaths).name
            ELSE IF overrideExpected(probe.args[1], probe.args[3],
                                     probe.args[4]) # ""
            THEN overrideExpected(probe.args[1], probe.args[3], probe.args[4])
            ELSE decodeStandardName(probe.args[1][Len(probe.args[1])])

\* A member of a merged group that also has an override shows the merged
\* name.
C23_Witness ==
    /\ Called("displayDeviceName")
    /\ \E md \in probe.args[2] :
          /\ probe.args[1] \in md.memberPaths
          /\ probe.result = md.name
    /\ probe.args[1] \in DOMAIN probe.args[3]
    /\ Len(probe.args[4]) = 0


(***************************************************************************)
(* The tree builder                                                        *)
(***************************************************************************)
\* The folder paths a point path stands for: the root label followed by
\* every non-empty prefix of its segments without the last one.
folderPrefixes(p) ==
    {<<RootName>> \o SubSeq(trimmedPieces(p), 1, k) :
        k \in 1..(Len(trimmedPieces(p)) - 1)}

\* C24: the node paths of the tree buildFolderTreeFromPaths returns are
\* the root and, prefixed by the root label, every non-empty prefix of the
\* folder segments (all segments but the last) of every input path; each
\* path has one node however many input paths share it; single-segment
\* paths contribute no node; for empty input the root has no children.
C24_TreeNodesArePrefixes ==
    Called("buildFolderTreeFromPaths") =>
        /\ probe.result[1] = <<RootName>>
        /\ Range(probe.result) =
              {<<RootName>>}
              \cup UNION {folderPrefixes(probe.args[1][i]) :
                             i \in DOMAIN probe.args[1]}
        /\ \A i \in DOMAIN probe.result : \A j \in DOMAIN probe.result :
              probe.result[i] = probe.result[j] => i = j
        /\ (\A i \in DOMAIN probe.args[1] :
               Len(trimmedPieces(probe.args[1][i])) <= 1) =>
                  probe.result = << <<RootName>> >>

\* Two point paths in the same nested folder and a point in no folder:
\* the tree has the root, the folder and the folder beneath it, once each.
C24_Witness ==
    /\ Called("buildFolderTreeFromPaths")
    /\ probe.args[1] = << <<"A", "B", "y">>, <<"y">>, <<"A", "", "B", "x">> >>
    /\ probe.result = << <<"root">>, <<"root", "A">>, <<"root", "A", "B">> >>


(***************************************************************************)
(* Persisted configuration at startup                                      *)
(***************************************************************************)
\* C25: a well-formed persisted Merged Device (non-empty id, name and
\* memberPaths) and a persisted Name Override with a non-empty name are
\* still in the state once the startup effects have run, before any user
\* action.
C25_PersistedConfigurationSurvivesStartup ==
    [][ lastOp = "init" =>
           /\ \A md \in mergedDevices : md \in mergedDevices'
           /\ \A k \in DOMAIN deviceNameByPath :
                 /\ k \in DOMAIN deviceNameByPath'
                 /\ deviceNameByPath'[k] = deviceNameByPath[k]
      ]_vars


(***************************************************************************)
(* Stale references after a data load                                      *)
(***************************************************************************)
\* C26: in every settled state every path of the Device Set is a folder
\* node of the tree built from the loaded paths, also when a data load
\* completes while an overlap plan or a staged merge computed on the
\* earlier data is pending and that plan or merge is confirmed afterwards.
C26_DevicesWithinTree ==
    effectsDue = {} => devicePaths \subseteq treeFolderPathSet


(***************************************************************************)
(* The Conflict Planner applied                                            *)
(***************************************************************************)
\* No two paths of S are ancestor and descendant.
noNestedPair(S) ==
    \A a \in S : \A b \in S :
        segmentPrefixRelation(a, b) \notin {"ancestor", "descendant"}

\* C27: if no two paths of the Device Set are ancestor and descendant
\* before markSelectionAsDevices, none are after its change is applied,
\* whether at once or through confirmDeviceConflict with the Device Set
\* still the one the plan was made for.
C27_PlannerPreservesInvariant ==
    [][ /\ (lastOp' = "markApplied" /\ noNestedPair(devicePaths)) =>
               noNestedPair(devicePaths')
        /\ (/\ pendingConflict.pending
            /\ lastOp' = "confirmDeviceConflict"
            /\ planDevices = devicePaths
            /\ noNestedPair(devicePaths)) =>
               noNestedPair(devicePaths')
      ]_vars

\* Right after a confirmed plan that took a renamed device out of the
\* Device Set and put another in: the override of the removed device is
\* still waiting for the pruning effect.
C27_Witness ==
    /\ lastOp = "confirmDeviceConflict"
    /\ effectsDue = {DevicesEffect}
    /\ devicePaths # {}
    /\ noNestedPair(devicePaths)
    /\ DOMAIN deviceNameByPath # {}
    /\ DOMAIN deviceNameByPath \cap devicePaths = {}


\* C28: when markSelectionAsDevices applies without confirmation (to-remove
\* and dropped-from-selection both empty), the list of reassignment groups
\* is empty and every point that had an owner keeps that owner, for any
\* current Device Set, nested ones included.
C28_NoSilentReassignment ==
    (/\ Called("markSelectionAsDevices")
     /\ probe.result.toRemove = {}
     /\ probe.result.droppedFromSelection = {}) =>
        /\ probe.result.reassignmentGroups = {}
        /\ \A pt \in Range(LibPointPaths) :
              computeOwnerDevice(pt, SetToSeq(probe.args[2])) # None =>
                  computeOwnerDevice(pt,
                      SetToSeq(addDevices(probe.args[2], probe.result.toAdd)))
                    = computeOwnerDevice(pt, SetToSeq(probe.args[2]))

\* A plan that needs no confirmation adds a device next to two nested
\* existing devices that own points.
C28_Witness ==
    /\ Called("markSelectionAsDevices")
    /\ probe.result.toRemove = {}
    /\ probe.result.droppedFromSelection = {}
    /\ probe.result.toAdd \ probe.args[2] # {}
    /\ ~noNestedPair(probe.args[2])
    /\ \E pt \in Range(LibPointPaths) :
          computeOwnerDevice(pt, SetToSeq(probe.args[2])) # None


\* C29: in every plan, for every Device Set and selection, to-remove is
\* the union of the upstream and the downstream conflicts, which are
\* disjoint; to-remove is within the current Device Set and disjoint from
\* to-add; to-add and dropped-from-selection are disjoint and together are
\* the selection.
C29_PlanWellFormed ==
    Called("markSelectionAsDevices") =>
        /\ probe.result.toRemove =
              probe.result.upstreamConflicts
                  \cup probe.result.downstreamConflicts
        /\ probe.result.upstreamConflicts
              \cap probe.result.downstreamConflicts = {}
        /\ probe.result.toRemove \subseteq probe.args[2]
        /\ probe.result.toRemove \cap probe.result.toAdd = {}
        /\ probe.result.toAdd \cap probe.result.droppedFromSelection = {}
        /\ probe.result.toAdd \cup probe.result.droppedFromSelection
              = probe.args[1]

\* A plan with an upstream conflict, a downstream conflict and a dropped
\* candidate at once.
C29_Witness ==
    /\ Called("markSelectionAsDevices")
    /\ probe.result.upstreamConflicts # {}
    /\ probe.result.downstreamConflicts # {}
    /\ probe.result.droppedFromSelection # {}


\* C30: when the current Device Set has no ancestor/descendant pair, every
\* reassignment group of a plan has its previous owner in to-remove and its
\* next owner in to-add: no point moves between two devices that both
\* stay, or onto a device that already existed.
C30_GroupsMoveFromRemovedToAdded ==
    (Called("markSelectionAsDevices") /\ noNestedPair(probe.args[2])) =>
        \A g \in probe.result.reassignmentGroups :
            /\ g.fromDevicePath \in probe.result.toRemove
            /\ g.toDevicePath \in probe.result.toAdd
            /\ g.toDevicePath \notin probe.args[2]

\* A plan over a Device Set of two unrelated devices that moves the points
\* of a device onto a kept candidate above it.
C30_Witness ==
    /\ Called("markSelectionAsDevices")
    /\ Cardinality(probe.args[2]) = 2
    /\ noNestedPair(probe.args[2])
    /\ \E g \in probe.result.reassignmentGroups :
          /\ g.fromDevicePath \in probe.result.downstreamConflicts
          /\ g.pointPaths # {}

=============================================================================
